---- MODULE Spec2Model ----
(***************************************************************************)
(* Model of the asynchronous TTS task layer of src/api.py: the in-memory   *)
(* task map, the background worker process_tts_task, the four HTTP         *)
(* handlers and the periodic cleanup loop.                                 *)
(*                                                                         *)
(* All handlers are coroutines of one asyncio event loop, so a handler     *)
(* runs indivisibly between two awaits.  process_tts_task has one await    *)
(* (the engine call in the executor) and is therefore two steps; every     *)
(* other handler is one step; cleanup_old_tasks is one step per loop       *)
(* iteration (its only await is the sleep).                                *)
(*                                                                         *)
(* Time is counted in units of 1/UnitsPerDay day.  Task ids are 1, 2, ...  *)
(* in allocation order (uuid4 gives fresh ids; dict iteration order is     *)
(* insertion order, which is then ascending id order).                     *)
(***************************************************************************)
EXTENDS Integers, Sequences, FiniteSets, TLC

\* Bounds of the model.
MaxTasks == 2
MaxTime == 1
UnitsPerDay == 1

\* (current_time - created_at).days >= 1
RetentionDays == 1

Ids == 1..MaxTasks

\* Absent dictionary key / Optional field.
None == "none"
NoTime == -1

\* Values the external collaborators can produce.
Paths == {"rvc_output.wav", "rvc_output.mp3"}
EngineErrors == {"engine blew up"}
MakedirsError == "makedirs failed"
\* str(e) of the KeyError of tts_tasks[task_id] on an id that is not in the map.
KeyErrorMessage == "KeyError"

VARIABLES
    tts_tasks,   \* the task map: a function from the stored ids to records
    dirs,        \* ids whose directory temp_tts_<id> exists
    files,       \* ids whose output file exists on disk
    pc,          \* position of the background worker of each id: "idle" (no such
                 \* task yet), "scheduled", "awaiting" (the engine call),
                 \* "returned" or one of Raised
    now,         \* datetime.now()
    sweeper,     \* the cleanup_old_tasks task: "running", or how it died
    deleted_at,  \* history: "early" or "late" once delete_tts_task has succeeded on
                 \* an id, before or after the end of its worker; "no" until then
    resp         \* the response of the HTTP handler that ran in the last step,
                 \* NoResponse when the step was not an HTTP handler

vars == <<tts_tasks, dirs, files, pc, now, sweeper, deleted_at, resp>>

Stored == DOMAIN tts_tasks

\* Ids on which delete_tts_task has succeeded.
Deleted == {i \in Ids : deleted_at[i] # "no"}

\* The positions of a worker that ended on an exception: the KeyError of the
\* update in the except block (line 126), the error of the rmtree in the except
\* block (line 134), the raise e that ends the except block (line 136).
Raised == {"raised_126", "raised_134", "raised_136"}

\* The worker of id has ended.
Ended(id) == pc[id] \in {"returned"} \cup Raised

\* tts_tasks[task_id] = {...}
Put(tasks, id, rec) == [x \in (DOMAIN tasks) \cup {id} |-> IF x = id THEN rec ELSE tasks[x]]

\* del tts_tasks[task_id]
Del(tasks, id) == [x \in (DOMAIN tasks) \ {id} |-> tasks[x]]

\* The request of a submission.  The layer never looks into it (it is stored and
\* handed to the engine), so one value per submission stands for all: the
\* request of the submission that got the id.
RequestOf(id) == id

\* NewRecord with the status the worker's first step gives.
NewRecord_processing(t, rq) ==
    [status |-> "processing", created_at |-> t, completed_at |-> NoTime,
     output_file |-> None, error |-> None, request |-> rq]

\* The record text_to_speech creates.
NewRecord(t, rq) ==
    [status |-> "pending", created_at |-> t, completed_at |-> NoTime,
     output_file |-> None, error |-> None, request |-> rq]

\* CompletedUpdate forgetting the output_file key.
CompletedUpdate_noOutput(rec, t, out) ==
    [rec EXCEPT !.status = "completed", !.completed_at = t]

\* CompletedUpdate assigning a new dict instead of updating the stored one.
CompletedUpdate_replace(rec, t, out) ==
    [status |-> "completed", created_at |-> t, completed_at |-> t,
     output_file |-> out, error |-> None, request |-> rec.request]

\* CompletedUpdate forgetting the status key.
CompletedUpdate_noStatus(rec, t, out) ==
    [rec EXCEPT !.completed_at = t, !.output_file = out]

CompletedUpdate(rec, t, out) ==
    [rec EXCEPT !.status = "completed", !.completed_at = t, !.output_file = out]

\* FailedUpdate storing a fixed text instead of str(e).
FailedUpdate_fixedMessage(rec, t, msg) ==
    [rec EXCEPT !.status = "failed", !.completed_at = t, !.error = "failed"]

\* FailedUpdate forgetting the completed_at key.
FailedUpdate_noCompletedAt(rec, t, msg) ==
    [rec EXCEPT !.status = "failed", !.error = msg]

FailedUpdate(rec, t, msg) ==
    [rec EXCEPT !.status = "failed", !.completed_at = t, !.error = msg]

\* Rmtree with a call that raises after it has removed the directory.
Rmtree_raiseAfterRemoval(id, d, f) ==
    { [ok |-> TRUE,  dirs |-> d \ {id}, files |-> f \ {id}],
      [ok |-> FALSE, dirs |-> d \ {id}, files |-> f \ {id}] }

\* shutil.rmtree(temp_dir): the outcomes of one call.  A failing call leaves
\* the directory in place; that an output file can be gone while its directory
\* is there is the step output_file_removed of DiskSpec.
Rmtree(id, d, f) ==
    { [ok |-> TRUE,  dirs |-> d \ {id}, files |-> f \ {id}],
      [ok |-> FALSE, dirs |-> d,        files |-> f] }

\* if os.path.exists(temp_dir): shutil.rmtree(temp_dir)
RemoveTempDir(id, d, f) ==
    IF id \in d THEN Rmtree(id, d, f)
    ELSE { [ok |-> TRUE, dirs |-> d, files |-> f] }

NoBody ==
    [status |-> None, created_at |-> NoTime, completed_at |-> NoTime,
     output_file |-> None, error |-> None]

\* The fields of a record that TTSStatus carries.
StatusBody(rec) ==
    [status |-> rec.status, created_at |-> rec.created_at,
     completed_at |-> rec.completed_at, output_file |-> rec.output_file,
     error |-> rec.error]

Response(op, id, code, detail, body) ==
    [op |-> op, task_id |-> id, code |-> code, detail |-> detail, body |-> body]

\* No HTTP handler has answered in this step.
NoResponse == Response("none", 0, 0, None, NoBody)

Init ==
    /\ tts_tasks = <<>>
    /\ dirs = {}
    /\ files = {}
    /\ pc = [i \in Ids |-> "idle"]
    /\ now = 0
    /\ sweeper = "running"
    /\ deleted_at = [i \in Ids |-> "no"]
    /\ resp = NoResponse

\* background_tasks.add_task(process_tts_task, task_id, request)
Schedule(p, id) == [p EXCEPT ![id] = "scheduled"]

\* POST /tts/
text_to_speech ==
    \E id \in Ids :
        /\ pc[id] = "idle"
        /\ \A j \in Ids : j < id => pc[j] # "idle"
        /\ tts_tasks' = Put(tts_tasks, id, NewRecord(now, RequestOf(id)))
        /\ pc' = Schedule(pc, id)
        /\ resp' = Response("submit", id, 200, "pending",
                             StatusBody(NewRecord(now, RequestOf(id))))
        /\ UNCHANGED <<dirs, files, now, sweeper, deleted_at>>

\* ExceptHandler writing the failure with tts_tasks.setdefault(task_id, {}),
\* which creates the record when it is absent.
ExceptHandler_reinsert(id, msg, t, tasks, d, f) ==
    LET old == IF id \in DOMAIN tasks THEN tasks[id] ELSE NewRecord(t, RequestOf(id))
    IN { [tasks |-> Put(tasks, id, FailedUpdate(old, t, msg)),
          dirs |-> o.dirs, files |-> o.files,
          at |-> IF o.ok THEN "raised_136" ELSE "raised_134"]
         : o \in RemoveTempDir(id, d, f) }

\* The except block of process_tts_task (lines 124-136) entered with str(e) = msg:
\* the outcomes for the store and the disk.  With the record absent the update
\* raises KeyError before the cleanup; in every outcome the worker ends raising.
ExceptHandler(id, msg, t, tasks, d, f) ==
    IF id \notin DOMAIN tasks
    THEN { [tasks |-> tasks, dirs |-> d, files |-> f, at |-> "raised_126"] }
    ELSE { [tasks |-> Put(tasks, id, FailedUpdate(tasks[id], t, msg)),
            dirs |-> o.dirs, files |-> o.files,
            at |-> IF o.ok THEN "raised_136" ELSE "raised_134"]
           : o \in RemoveTempDir(id, d, f) }

\* WorkerRaised with a retry: the failed task is scheduled again.
WorkerRaised_retry(p, id, at) == [p EXCEPT ![id] = "scheduled"]

\* The worker of id ends on an exception at position at.
WorkerRaised(p, id, at) == [p EXCEPT ![id] = at]

\* process_tts_task up to the await of the engine call (lines 76-88).
process_tts_task_start(id) ==
    /\ pc[id] = "scheduled"
    /\ \E mk \in BOOLEAN :
        LET d1 == IF mk THEN dirs \cup {id} ELSE dirs
            msg == IF mk THEN KeyErrorMessage ELSE MakedirsError
        IN
        IF mk /\ id \in Stored
        THEN /\ tts_tasks' = [tts_tasks EXCEPT ![id].status = "processing"]
             /\ dirs' = d1
             /\ pc' = [pc EXCEPT ![id] = "awaiting"]
             /\ UNCHANGED files
        ELSE \E h \in ExceptHandler(id, msg, now, tts_tasks, d1, files) :
                /\ tts_tasks' = h.tasks
                /\ dirs' = h.dirs
                /\ files' = h.files
                /\ pc' = WorkerRaised(pc, id, h.at)
    /\ resp' = NoResponse
    /\ UNCHANGED <<now, sweeper, deleted_at>>

\* What run_tts_script can do: return (message, output_file) or raise.
EngineOutcomes ==
    { [ok |-> TRUE, val |-> p] : p \in Paths } \cup
    { [ok |-> FALSE, val |-> m] : m \in EngineErrors }

\* process_tts_task from the return of the engine call to its end (lines 88-136),
\* the engine call ending with r.
process_tts_task_return(id, r) ==
    /\ pc[id] = "awaiting"
    /\ LET f1 == IF r.ok /\ id \in dirs THEN files \cup {id} ELSE files
           msg == IF r.ok THEN KeyErrorMessage ELSE r.val
       IN
        IF r.ok /\ id \in Stored
        THEN /\ tts_tasks' = Put(tts_tasks, id, CompletedUpdate(tts_tasks[id], now, r.val))
             /\ files' = f1
             /\ pc' = [pc EXCEPT ![id] = "returned"]
             /\ UNCHANGED dirs
        ELSE \E h \in ExceptHandler(id, msg, now, tts_tasks, dirs, f1) :
                /\ tts_tasks' = h.tasks
                /\ dirs' = h.dirs
                /\ files' = h.files
                /\ pc' = WorkerRaised(pc, id, h.at)
    /\ resp' = NoResponse
    /\ UNCHANGED <<now, sweeper, deleted_at>>

process_tts_task_finish(id) ==
    \E r \in EngineOutcomes : process_tts_task_return(id, r)

\* GET /tts/{task_id}/status
StatusResponse(tasks, id) ==
    IF id \notin DOMAIN tasks
    THEN Response("status", id, 404, "Task not found", NoBody)
    ELSE Response("status", id, 200, "ok", StatusBody(tasks[id]))

get_tts_status(id) ==
    /\ resp' = StatusResponse(tts_tasks, id)
    /\ UNCHANGED <<tts_tasks, dirs, files, pc, now, sweeper, deleted_at>>

\* ResultResponse without the test of the status.
ResultResponse_noStatusCheck(tasks, f, id) ==
    IF id \notin DOMAIN tasks
    THEN Response("result", id, 404, "Task not found", NoBody)
    ELSE IF tasks[id].output_file = None /\ tasks[id].status = "completed"
    THEN Response("result", id, 404, "Output file not found", NoBody)
    ELSE IF id \in f \/ tasks[id].status # "completed"
    THEN Response("result", id, 200, tasks[id].output_file, NoBody)
    ELSE Response("result", id, 500, "RuntimeError", NoBody)

\* GET /tts/{task_id}/result.  FileResponse on a path that is not a file
\* fails while the response is sent, which the server reports as a 500.
ResultResponse(tasks, f, id) ==
    IF id \notin DOMAIN tasks
    THEN Response("result", id, 404, "Task not found", NoBody)
    ELSE IF tasks[id].status # "completed"
    THEN Response("result", id, 400, tasks[id].status, NoBody)
    ELSE IF tasks[id].output_file = None
    THEN Response("result", id, 404, "Output file not found", NoBody)
    ELSE IF id \in f
    THEN Response("result", id, 200, tasks[id].output_file, NoBody)
    ELSE Response("result", id, 500, "RuntimeError", NoBody)

\* get_tts_result removing the record it has looked at.
get_tts_result_consume(id) ==
    /\ resp' = ResultResponse(tts_tasks, files, id)
    /\ tts_tasks' = Del(tts_tasks, id)
    /\ UNCHANGED <<dirs, files, pc, now, sweeper, deleted_at>>

get_tts_result(id) ==
    /\ resp' = ResultResponse(tts_tasks, files, id)
    /\ UNCHANGED <<tts_tasks, dirs, files, pc, now, sweeper, deleted_at>>

\* DELETE /tts/{task_id}
delete_tts_task(id) ==
    /\ IF id \notin Stored
       THEN /\ resp' = Response("delete", id, 404, "Task not found", NoBody)
            /\ UNCHANGED <<tts_tasks, dirs, files, deleted_at>>
       ELSE \E o \in RemoveTempDir(id, dirs, files) :
                /\ dirs' = o.dirs
                /\ files' = o.files
                /\ IF o.ok
                   THEN /\ tts_tasks' = Del(tts_tasks, id)
                        /\ deleted_at' = [deleted_at EXCEPT ![id] =
                                              IF Ended(id) THEN "late" ELSE "early"]
                        /\ resp' = Response("delete", id, 200, "deleted", NoBody)
                   ELSE /\ resp' = Response("delete", id, 500, "rmtree failed", NoBody)
                        /\ UNCHANGED <<tts_tasks, deleted_at>>
    /\ UNCHANGED <<pc, now, sweeper>>

\* timedelta.days
Days(delta) == delta \div UnitsPerDay

\* if (current_time - created_at).days >= 1
Expired(rec, t) == Days(t - rec.created_at) >= RetentionDays

RECURSIVE AscSeq(_)
AscSeq(S) ==
    IF S = {} THEN <<>>
    ELSE LET m == CHOOSE x \in S : \A y \in S : x <= y
         IN <<m>> \o AscSeq(S \ {m})

\* TasksToDelete from a stale view: ids that are not in the map are listed too.
TasksToDelete_stale(tasks, t) ==
    AscSeq({id \in Ids : id \notin DOMAIN tasks \/ Expired(tasks[id], t)})

\* The list tasks_to_delete, in the iteration order of the dict.
TasksToDelete(tasks, t) == AscSeq({id \in DOMAIN tasks : Expired(tasks[id], t)})

\* The second loop of cleanup_old_tasks: the states it can end in.  A raising
\* rmtree ends the loop and, being uncaught, the whole cleanup task ("dead"); so
\* does del tts_tasks[task_id] on an id that is not in the map ("dead_keyerror").
RECURSIVE SweepLoop(_, _)
SweepLoop(todo, st) ==
    IF todo = <<>> THEN {st}
    ELSE LET id == Head(todo) IN
         UNION { IF ~o.ok
                 THEN { [tasks |-> st.tasks, dirs |-> o.dirs,
                         files |-> o.files, end |-> "dead"] }
                 ELSE IF id \notin DOMAIN st.tasks
                 THEN { [tasks |-> st.tasks, dirs |-> o.dirs,
                         files |-> o.files, end |-> "dead_keyerror"] }
                 ELSE SweepLoop(Tail(todo),
                                [tasks |-> Del(st.tasks, id), dirs |-> o.dirs,
                                 files |-> o.files, end |-> "running"])
                 : o \in RemoveTempDir(id, st.dirs, st.files) }

\* One iteration of the while loop of cleanup_old_tasks.
cleanup_old_tasks ==
    /\ sweeper = "running"
    /\ \E st \in SweepLoop(TasksToDelete(tts_tasks, now),
                           [tasks |-> tts_tasks, dirs |-> dirs,
                            files |-> files, end |-> "running"]) :
        /\ tts_tasks' = st.tasks
        /\ dirs' = st.dirs
        /\ files' = st.files
        /\ sweeper' = st.end
    /\ resp' = NoResponse
    /\ UNCHANGED <<pc, now, deleted_at>>

\* datetime.now() moves on.
Advance ==
    /\ now < MaxTime
    /\ now' = now + 1
    /\ resp' = NoResponse
    /\ UNCHANGED <<tts_tasks, dirs, files, pc, sweeper, deleted_at>>

Next ==
    \/ text_to_speech
    \/ \E id \in Ids : process_tts_task_start(id)
    \/ \E id \in Ids : process_tts_task_finish(id)
    \/ \E id \in Ids : get_tts_status(id)
    \/ \E id \in Ids : get_tts_result(id)
    \/ \E id \in Ids : delete_tts_task(id)
    \/ cleanup_old_tasks
    \/ Advance

Spec == Init /\ [][Next]_vars

\* The file that FileResponse(task["output_file"]) is to send disappears from the
\* disk (removed from outside, or by an rmtree that failed half way).
output_file_removed(id) ==
    /\ id \in files
    /\ files' = files \ {id}
    /\ resp' = NoResponse
    /\ UNCHANGED <<tts_tasks, dirs, pc, now, sweeper, deleted_at>>

DiskNext ==
    \/ Next
    \/ \E id \in Ids : output_file_removed(id)

\* The program on a disk where output files can disappear.
DiskSpec == Init /\ [][DiskNext]_vars

\* The background task of every submission is run, and the engine call ends.
FairSpec ==
    /\ Spec
    /\ \A id \in Ids : WF_vars(process_tts_task_start(id))
    /\ \A id \in Ids : WF_vars(process_tts_task_finish(id))

----------------------------------------------------------------------------
(* Properties *)

\* One step of the status of a record, as section 4.2 allows it.
StatusStep(a, b) ==
    \/ a = b
    \/ <<a, b>> \in { <<"pending", "processing">>,
                      <<"processing", "completed">>,
                      <<"processing", "failed">> }

\* C1: the status of every record starts at pending and only moves
\* pending -> processing -> completed or pending -> processing -> failed.
\* Fails: a makedirs failure in the worker's first step takes pending to failed.
C1_StatusTransitions ==
    [][\A id \in Ids :
          /\ (id \notin Stored /\ id \in Stored') => tts_tasks'[id].status = "pending"
          /\ (id \in Stored /\ id \in Stored') =>
                 StatusStep(tts_tasks[id].status, tts_tasks'[id].status)]_vars

\* A record, or the body of a status response, has output_file exactly when
\* completed and error exactly when failed.
FieldsMatchStatus(rec) ==
    /\ rec.output_file # None <=> rec.status = "completed"
    /\ rec.error # None <=> rec.status = "failed"

\* C2: for every stored record output_file is present iff status is completed
\* and error is present iff status is failed, so never both; and no status
\* response shows another combination.
C2_FieldsMatchStatus ==
    /\ \A id \in Stored :
          /\ FieldsMatchStatus(tts_tasks[id])
          /\ ~(tts_tasks[id].output_file # None /\ tts_tasks[id].error # None)
    /\ (resp.op = "status" /\ resp.code = 200) => FieldsMatchStatus(resp.body)

C2_Witness ==
    /\ resp.op = "status" /\ resp.code = 200 /\ resp.body.status = "completed"
    /\ \E id \in Stored : tts_tasks[id].status = "failed"
    /\ \E id \in Stored : tts_tasks[id].status = "completed"

\* C3: once delete_tts_task has succeeded on an id, the id never is in the store
\* again and every later status, result and delete request on it answers
\* 404 "Task not found".
C3_DeletedStaysNotFound ==
    [][\A id \in Deleted :
          /\ id \notin Stored'
          /\ deleted_at'[id] # "no"
          /\ resp'.task_id = id =>
                 (resp'.code = 404 /\ resp'.detail = "Task not found")]_vars

\* A worker whose task was deleted before its end has ended, and a second
\* delete on its id was answered.
C3_Witness ==
    \E id \in Ids :
        /\ deleted_at[id] = "early"
        /\ Ended(id)
        /\ resp = Response("delete", id, 404, "Task not found", NoBody)

\* C4: when delete_tts_task succeeded before the worker of the id had ended,
\* no directory of the id exists once that worker has ended.
\* Fails: the worker of a deleted pending task creates the directory and then
\* ends on the KeyError without removing it.
C4_NoArtifactAfterEarlyDelete ==
    \A id \in Ids :
        (deleted_at[id] = "early" /\ Ended(id)) => id \notin dirs

\* C5: no worker ends with an exception escaping.
\* Fails: the except block ends with raise e, and raises KeyError itself when
\* the record is gone.
C5_WorkerNeverRaises ==
    \A id \in Ids : pc[id] \notin Raised

\* now - created_at exceeds the retention window.
OlderThanWindow(rec, t) == t - rec.created_at > RetentionDays * UnitsPerDay

\* C6: one iteration of the cleanup removes exactly the records older than the
\* window, with their directories, and leaves the others untouched.
\* Fails: a record of age exactly one day is removed.
C6_SweepExactlyOlder ==
    [][cleanup_old_tasks =>
          LET old == {id \in Stored : OlderThanWindow(tts_tasks[id], now)} IN
          /\ Stored' = Stored \ old
          /\ \A id \in Stored' : tts_tasks'[id] = tts_tasks[id]
          /\ dirs' = dirs \ old
          /\ files' = files \ old]_vars

\* C7: the cleanup never stops, and an iteration leaves no expired record.
\* Fails: a raising rmtree ends the cleanup task in the middle of the loop.
C7_SweeperNeverStops ==
    [][cleanup_old_tasks =>
          /\ sweeper' = "running"
          /\ \A id \in Stored' : ~Expired(tts_tasks'[id], now)]_vars

\* C8: delete_tts_task on a stored id removes the record and answers 200; on
\* an absent id it answers 404 and changes nothing.
\* Fails: a raising rmtree leaves the record and the answer is an error.
C8_DeleteAlwaysSucceeds ==
    [][resp'.op = "delete" =>
          LET id == resp'.task_id IN
          IF id \in Stored
          THEN id \notin Stored' /\ resp'.code = 200
          ELSE /\ resp'.code = 404
               /\ UNCHANGED <<tts_tasks, dirs, files>>]_vars

\* C9: get_tts_result answers 404 on an absent id, 400 with the current status
\* on a pending, processing or failed record, and a file only when completed.
C9_ResultOnlyWhenCompleted ==
    [][resp'.op = "result" =>
          LET id == resp'.task_id IN
          /\ id \notin Stored =>
                 (resp'.code = 404 /\ resp'.detail = "Task not found")
          /\ (id \in Stored /\ tts_tasks[id].status \in {"pending", "processing", "failed"}) =>
                 (resp'.code = 400 /\ resp'.detail = tts_tasks[id].status)
          /\ resp'.code = 200 =>
                 (id \in Stored /\ tts_tasks[id].status = "completed")]_vars

C9_Witness ==
    \E id \in Stored :
        /\ tts_tasks[id].status = "failed"
        /\ resp = Response("result", id, 400, "failed", NoBody)

\* C10: get_tts_result on a completed record whose output file is not on disk
\* answers 404 "Output file not found".
\* Fails: only the record's field is tested; FileResponse then fails.
C10_MissingArtifact ==
    [][resp'.op = "result" =>
          LET id == resp'.task_id IN
          (id \in Stored /\ tts_tasks[id].status = "completed" /\ id \notin files) =>
              (resp'.code = 404 /\ resp'.detail = "Output file not found")]_vars

\* C11: text_to_speech adds one record under an id never used before, pending,
\* with created_at = now and nothing else set, leaves the other records alone
\* and answers {id, pending, created_at} with the worker not yet run; a status
\* request before the worker's first step shows pending.
C11_SubmitAddsPending ==
    [][/\ resp'.op = "submit" =>
             LET id == resp'.task_id IN
             /\ pc[id] = "idle" /\ id \notin Stored
             /\ Stored' = Stored \cup {id}
             /\ tts_tasks'[id] =
                    [status |-> "pending", created_at |-> now, completed_at |-> NoTime,
                     output_file |-> None, error |-> None, request |-> RequestOf(id)]
             /\ \A j \in Stored : tts_tasks'[j] = tts_tasks[j]
             /\ resp'.code = 200 /\ resp'.detail = "pending"
             /\ resp'.body.status = "pending" /\ resp'.body.created_at = now
             /\ pc'[id] = "scheduled" /\ dirs' = dirs /\ files' = files
       /\ (resp'.op = "status" /\ resp'.task_id \in Stored
              /\ pc[resp'.task_id] = "scheduled") =>
             (resp'.code = 200 /\ resp'.body.status = "pending")]_vars

C11_Witness ==
    \E id \in Stored :
        /\ pc[id] = "scheduled"
        /\ resp.op = "status" /\ resp.task_id = id /\ resp.body.status = "pending"
        /\ \E j \in Stored : tts_tasks[j].status = "completed"

\* What the engine outcome r leaves in the record of id, the directory apart.
OutcomeRecorded(id, r) ==
    IF r.ok
    THEN /\ tts_tasks'[id].status = "completed"
         /\ tts_tasks'[id].output_file = r.val
    ELSE /\ tts_tasks'[id].status = "failed"
         /\ tts_tasks'[id].error = r.val
         /\ tts_tasks'[id].completed_at = now
         /\ tts_tasks'[id].output_file = None

\* C12 as claimed: when the engine call of a stored task ends, a failure with
\* message m leaves failed, error m, completed_at set, no output_file and no
\* directory; a success with path p leaves completed and output_file p.
\* Fails: the rmtree of the except block can fail, and the directory stays.
C12_FailureRemovesDirectory ==
    [][\A id \in Ids : (pc[id] = "awaiting" /\ pc'[id] # "awaiting" /\ id \in Stored) =>
          \A r \in EngineOutcomes : process_tts_task_return(id, r) =>
              /\ OutcomeRecorded(id, r)
              /\ ~r.ok => id \notin dirs']_vars

\* C12 amended: as claimed, but after a failure the directory is gone unless
\* its removal itself failed (the worker ended at line 134), and then it stays.
C12_FailureRemovesDirectoryUnlessRmtreeFails ==
    [][\A id \in Ids : (pc[id] = "awaiting" /\ pc'[id] # "awaiting" /\ id \in Stored) =>
          \A r \in EngineOutcomes : process_tts_task_return(id, r) =>
              /\ OutcomeRecorded(id, r)
              /\ ~r.ok => (id \notin dirs' <=> pc'[id] # "raised_134")]_vars

C12_Witness ==
    /\ \E id \in Stored :
          /\ tts_tasks[id].status = "failed" /\ tts_tasks[id].error \in EngineErrors
          /\ pc[id] = "raised_136" /\ id \notin dirs
    /\ \E id \in Stored :
          /\ tts_tasks[id].status = "failed" /\ tts_tasks[id].error \in EngineErrors
          /\ pc[id] = "raised_134" /\ id \in dirs

\* The moves of a worker: scheduled once, the engine called once, ended once.
WorkerStep(a, b) ==
    \/ a = "idle" /\ b = "scheduled"
    \/ a = "scheduled" /\ b \in {"awaiting"} \cup Raised
    \/ a = "awaiting" /\ b \in {"returned"} \cup Raised

\* C13: the engine is called at most once for an id (a worker is scheduled once,
\* enters the engine call at most once and never starts again), and the status,
\* output_file and error of a completed or failed record never change while
\* the record is stored.
C13_AtMostOneExecution ==
    [][\A id \in Ids :
          /\ pc'[id] # pc[id] => WorkerStep(pc[id], pc'[id])
          /\ (id \in Stored /\ id \in Stored'
                 /\ tts_tasks[id].status \in {"completed", "failed"}) =>
                 /\ tts_tasks'[id].status = tts_tasks[id].status
                 /\ tts_tasks'[id].output_file = tts_tasks[id].output_file
                 /\ tts_tasks'[id].error = tts_tasks[id].error]_vars

C13_Witness ==
    /\ \E id \in Stored : tts_tasks[id].status = "failed" /\ pc[id] = "raised_136"
    /\ \E id \in Stored : tts_tasks[id].status = "completed" /\ pc[id] = "returned"
    /\ now > 0

\* C14: completed_at is absent exactly while the record is pending or
\* processing, and once set it keeps its value.
C14_CompletedAtSetOnce ==
    [][\A id \in Stored' :
          /\ tts_tasks'[id].completed_at = NoTime
                 <=> tts_tasks'[id].status \in {"pending", "processing"}
          /\ (id \in Stored /\ tts_tasks[id].completed_at # NoTime) =>
                 tts_tasks'[id].completed_at = tts_tasks[id].completed_at]_vars

C14_Witness ==
    /\ \E id \in Stored :
          /\ tts_tasks[id].status = "failed"
          /\ tts_tasks[id].completed_at # NoTime /\ tts_tasks[id].completed_at < now
    /\ \E id \in Stored : tts_tasks[id].status = "processing"

\* C15: get_tts_status and get_tts_result change neither the store nor the disk,
\* whatever they answer.
C15_ReadsChangeNothing ==
    [][resp'.op \in {"status", "result"} =>
          UNCHANGED <<tts_tasks, dirs, files, pc, sweeper, deleted_at>>]_vars

C15_Witness ==
    /\ resp.op = "result" /\ resp.code = 200
    /\ \E id \in Stored : tts_tasks[id].status = "processing"

\* C16: the cleanup never dies on a record it selected and that is gone: nothing
\* runs between its selection and its removals.
C16_SweeperNeverFindsRecordGone ==
    sweeper # "dead_keyerror"

\* The cleanup has removed a record and is alive, and another one went by an
\* explicit delete.
C16_Witness ==
    /\ sweeper = "running"
    /\ \E id \in Ids : pc[id] # "idle" /\ id \notin Stored /\ deleted_at[id] = "no"
    /\ \E id \in Ids : deleted_at[id] = "early"

\* C17: the directory of an id is not removed while the engine call of its
\* worker is in flight.
\* Fails: delete_tts_task and the cleanup remove it whatever the worker does.
C17_NoRemovalDuringEngineCall ==
    [][\A id \in Ids :
          (pc[id] = "awaiting" /\ pc'[id] = "awaiting" /\ id \in dirs) =>
              id \in dirs']_vars

\* C18: a stored record has no directory before its worker's first step and has
\* one while it is completed; a directory is removed only by the failure path
\* of its worker, by delete_tts_task on its id or by the cleanup.
C18_DirectoryLifecycle ==
    [][/\ \A id \in Stored' :
             /\ pc'[id] = "scheduled" => id \notin dirs'
             /\ tts_tasks'[id].status = "completed" => id \in dirs'
       /\ \A id \in dirs \ dirs' :
             \/ pc[id] = "awaiting" /\ pc'[id] = "raised_136"
             \/ resp'.op = "delete" /\ resp'.task_id = id /\ resp'.code = 200
             \/ /\ sweeper = "running" /\ resp' = NoResponse /\ pc' = pc
                /\ id \in Stored /\ Expired(tts_tasks[id], now)]_vars

C18_Witness ==
    /\ \E id \in Stored : tts_tasks[id].status = "completed" /\ id \in dirs
                             /\ tts_tasks[id].completed_at < now
    /\ \E id \in Stored : pc[id] = "raised_136" /\ id \notin dirs

\* C19: created_at and request of a record never change while it is stored, and
\* a step of the worker of id neither adds nor removes a record nor changes the
\* record of another id.
C19_WorkerTouchesOwnFieldsOnly ==
    [][\A id \in Ids :
          /\ (id \in Stored /\ id \in Stored') =>
                 /\ tts_tasks'[id].created_at = tts_tasks[id].created_at
                 /\ tts_tasks'[id].request = tts_tasks[id].request
                 /\ tts_tasks'[id].request = RequestOf(id)
          /\ (pc'[id] # pc[id] /\ pc[id] # "idle") =>
                 /\ Stored' = Stored
                 /\ \A j \in Stored \ {id} : tts_tasks'[j] = tts_tasks[j]]_vars

C19_Witness ==
    \E id \in Stored : \E j \in Stored \ {id} :
        /\ tts_tasks[id].status = "completed"
        /\ tts_tasks[id].created_at < tts_tasks[id].completed_at
        /\ tts_tasks[j].status = "failed"

\* C20: when the workers are run and the engine calls end, every stored task
\* becomes completed or failed unless it is removed first.
C20_EventuallyTerminal ==
    \A id \in Ids :
        (id \in Stored) ~>
            (id \notin Stored \/ tts_tasks[id].status \in {"completed", "failed"})

C20_Witness ==
    /\ \E id \in Stored : tts_tasks[id].status = "completed" /\ pc[id] = "returned"
    /\ \E id \in Stored : tts_tasks[id].status = "failed" /\ Ended(id)
    /\ resp.op = "status" /\ resp.body.status = "failed"
====
